---- MODULE Spec2Model ----
(***************************************************************************)
(* Model of app.py of the token-supply dashboard: the JSON-RPC transport   *)
(* with its retry loop (call_rpc, call_rpc_batch), the binary search from  *)
(* a calendar date to a block number (get_closest_block_timestamp), and    *)
(* the batched total-supply reader with its outer retry                    *)
(* (get_token_total_supplies, get_token_total_supplies_with_retries).      *)
(*                                                                         *)
(* Strings that the code parses are sequences of one-character strings.    *)
(* A Python value that may be None is a record [some, v].                  *)
(***************************************************************************)
EXTENDS Integers, Sequences, FiniteSets, TLC

VARIABLES
    pc,                  \* position of the running operation
    chain,               \* the node's blocks: chain[n + 1] is the timestamp of block n
    target_date,         \* argument of get_closest_block_timestamp (day ordinal)
    attempt,             \* loop variable of call_rpc / call_rpc_batch
    rpc,                 \* the transport call in progress: posts made, failures, sleeps
    lastCall,            \* the transport call that returned last
    low,                 \* get_closest_block_timestamp: low
    high,                \* get_closest_block_timestamp: high
    chosen_block,        \* get_closest_block_timestamp: chosen_block
    chosen_datetime,     \* get_closest_block_timestamp: chosen_datetime
    fetched,             \* block numbers asked of eth_getBlockByNumber, in order
    headCalls,           \* number of eth_blockNumber calls issued
    oracleFailed,        \* some oracle call of this resolution gave no result
    resolved,            \* value returned by get_closest_block_timestamp
    outer_attempt,       \* loop variable of get_token_total_supplies_with_retries
    supplies,            \* its variable supplies: the mapping of the last batch attempt
    readResult,          \* value returned by get_token_total_supplies_with_retries
    batches,             \* number of calls of get_token_total_supplies
    batch_payload,       \* the requests of the current batch
    netCalls,            \* number of batch requests posted
    netFails,            \* number of batch requests that raised RequestException
    outerSleeps,         \* number of time.sleep(delay) of the outer retry loop
    responses,           \* the response list handed to the decoding loop
    start_date,          \* get_data_for_date_range: argument (day ordinal)
    end_date,            \* get_data_for_date_range: argument (day ordinal)
    current_date,        \* get_data_for_date_range: current_date
    data_rows,           \* get_data_for_date_range: data_rows
    calling,             \* the call get_data_for_date_range is waiting for
    processed,           \* dates the loop body ran for, with what the calls returned
    run,                 \* 0: the endpoint answers freely; 1, 2: the first and the
                         \* second of two calls against a scripted endpoint
    script,              \* outcomes of the posts of the first call, left to replay
    firstResult          \* value returned by the first call

resolveVars == <<chain, target_date, low, high, chosen_block, chosen_datetime,
                 fetched, headCalls, oracleFailed, resolved>>
rpcVars == <<attempt, rpc, lastCall>>
readVars == <<outer_attempt, supplies, readResult, batches, batch_payload,
              netCalls, netFails, outerSleeps>>
driverVars == <<start_date, end_date, current_date, data_rows, calling, processed>>
twiceVars == <<run, script, firstResult>>
callerVars == <<driverVars, twiceVars>>
vars == <<pc, resolveVars, rpcVars, readVars, responses, callerVars>>

----------------------------------------------------------------------------
(* Bounds of the model *)

MaxHead == 3
MaxDay == 2
MaxResp == 3

----------------------------------------------------------------------------
(* Python values *)

None == [some |-> FALSE, v |-> 0]
Some(x) == [some |-> TRUE, v |-> x]

retries == 3
max_retries == 3
SecondsPerDay == 86400

----------------------------------------------------------------------------
(* hex(n) and int(s, 16) *)

\* A Python str is the sequence of the code points of its characters.

DigitChars == <<"0", "1", "2", "3", "4", "5", "6", "7", "8", "9">>
UpperChars == <<"A", "B", "C", "D", "E", "F", "G", "H", "I", "J", "K", "L", "M",
                "N", "O", "P", "Q", "R", "S", "T", "U", "V", "W", "X", "Y", "Z">>
LowerChars == <<"a", "b", "c", "d", "e", "f", "g", "h", "i", "j", "k", "l", "m",
                "n", "o", "p", "q", "r", "s", "t", "u", "v", "w", "x", "y", "z">>

IndexOf(c, chars) == CHOOSE i \in 1..Len(chars) : chars[i] = c

\* ord(c) of an ASCII letter, digit, space, sign or underscore
Ord(c) ==
    IF \E i \in 1..Len(DigitChars) : DigitChars[i] = c
    THEN 47 + IndexOf(c, DigitChars)
    ELSE IF \E i \in 1..Len(UpperChars) : UpperChars[i] = c
    THEN 64 + IndexOf(c, UpperChars)
    ELSE IF \E i \in 1..Len(LowerChars) : LowerChars[i] = c
    THEN 96 + IndexOf(c, LowerChars)
    ELSE CASE c = " " -> 32
           [] c = "+" -> 43
           [] c = "-" -> 45
           [] c = "_" -> 95

\* the str written with the characters of s
Text(s) == [i \in 1..Len(s) |-> Ord(s[i])]

HexChars == Text(<<"0", "1", "2", "3", "4", "5", "6", "7",
                   "8", "9", "a", "b", "c", "d", "e", "f">>)
UpperHexChars == Text(<<"0", "1", "2", "3", "4", "5", "6", "7",
                        "8", "9", "A", "B", "C", "D", "E", "F">>)

\* what int() skips before and after the literal: tab, newline, vertical tab,
\* form feed, return and space, and the blanks beyond ASCII (U+0085, U+00A0,
\* U+1680, U+2000..U+200A, U+2028, U+2029, U+202F, U+205F, U+3000)
Whitespace ==
    (9..13) \cup {32, 133, 160, 5760} \cup (8192..8202)
        \cup {8232, 8233, 8239, 8287, 12288}

\* the digit zero of every script with decimal digits beyond ASCII (Unicode
\* 14.0); the digits one to nine follow it
DecimalZeros ==
    {1632, 1776, 1984, 2406, 2534, 2662, 2790, 2918, 3046, 3174, 3302,
     3430, 3558, 3664, 3792, 3872, 4160, 4240, 6112, 6160, 6470, 6608,
     6784, 6800, 6992, 7088, 7232, 7248, 42528, 43216, 43264, 43472, 43504,
     43600, 44016, 65296, 66720, 68912, 69734, 69872, 69942, 70096, 70384,
     70736, 70864, 71248, 71360, 71472, 71904, 72016, 72784, 73040, 73120,
     92768, 92864, 93008, 120782, 120792, 120802, 120812, 120822, 123200,
     123632, 125264, 130032}

\* the characters of the literals the code and int() look for
Underscore == Ord("_")
PlusSign == Ord("+")
MinusSign == Ord("-")
LowerX == Ord("x")
UpperX == Ord("X")
Str_0x == Text(<<"0", "x">>)
Str_0x0 == Text(<<"0", "x", "0">>)

IsAscii(c) == c < 128

IsAsciiHexDigit(c) == \E i \in 1..16 : HexChars[i] = c \/ UpperHexChars[i] = c

\* a decimal digit of another script: int() reads it as its ASCII digit
IsDecimalDigit(c) == ~IsAscii(c) /\ \E z \in DecimalZeros : z <= c /\ c <= z + 9

IsHexDigit(c) == IF IsAscii(c) THEN IsAsciiHexDigit(c) ELSE IsDecimalDigit(c)

DigitVal(c) ==
    IF IsAscii(c)
    THEN (CHOOSE i \in 1..16 : HexChars[i] = c \/ UpperHexChars[i] = c) - 1
    ELSE c - (CHOOSE z \in DecimalZeros : z <= c /\ c <= z + 9)

RECURSIVE HexDigitsOf(_)
HexDigitsOf(n) ==
    IF n < 16 THEN <<HexChars[n + 1]>>
    ELSE Append(HexDigitsOf(n \div 16), HexChars[(n % 16) + 1])

\* hex(n) for n >= 0
hex(n) == Str_0x \o HexDigitsOf(n)

RECURSIVE LStrip(_)
LStrip(s) == IF s # <<>> /\ Head(s) \in Whitespace THEN LStrip(Tail(s)) ELSE s

RECURSIVE RStrip(_)
RStrip(s) ==
    IF s # <<>> /\ s[Len(s)] \in Whitespace
    THEN RStrip(SubSeq(s, 1, Len(s) - 1)) ELSE s

\* the digits of an integer literal: hex digits, single underscores between them
RECURSIVE DigitsOk(_, _)
DigitsOk(s, prev) ==
    IF s = <<>> THEN prev # Underscore
    ELSE IF Head(s) = Underscore THEN prev # Underscore /\ DigitsOk(Tail(s), Underscore)
    ELSE IsHexDigit(Head(s)) /\ DigitsOk(Tail(s), Head(s))

RECURSIVE DigitsValue(_, _)
DigitsValue(s, acc) ==
    IF s = <<>> THEN acc
    ELSE IF Head(s) = Underscore THEN DigitsValue(Tail(s), acc)
    ELSE DigitsValue(Tail(s), acc * 16 + DigitVal(Head(s)))

\* int(s, 16): Some(value), or None where Python raises ValueError
int16(s) ==
    LET t == RStrip(LStrip(s))
        signed == t # <<>> /\ Head(t) \in {PlusSign, MinusSign}
        u == IF signed THEN Tail(t) ELSE t
        prefixed == /\ Len(u) >= 2
                    /\ IsHexDigit(u[1]) /\ DigitVal(u[1]) = 0
                    /\ u[2] \in {LowerX, UpperX}
        w == IF prefixed THEN SubSeq(u, 3, Len(u)) ELSE u
        d == IF prefixed /\ w # <<>> /\ Head(w) = Underscore THEN Tail(w) ELSE w
    IN  IF d # <<>> /\ Head(d) # Underscore /\ DigitsOk(d, 0)
        THEN Some((IF signed /\ Head(t) = MinusSign THEN -1 ELSE 1)
                      * DigitsValue(d, 0))
        ELSE None

\* datetime.utcfromtimestamp(ts).date(), as a day ordinal
DateOf(ts) == ts \div SecondsPerDay

----------------------------------------------------------------------------
(* The node behind the endpoint *)

Offsets == {0, SecondsPerDay - 1}
Timestamps == {d * SecondsPerDay + o : d \in 0..MaxDay, o \in Offsets}

IsMonotone(c) == \A i \in 1..(Len(c) - 1) : c[i] <= c[i + 1]

\* the chains whose timestamps never decrease from a block to the next: the
\* ordered chains that the claims about what the search finds are stated for
MonotoneChains ==
    UNION {{c \in [1..(h + 1) -> Timestamps] : IsMonotone(c)} : h \in 0..MaxHead}

\* every assignment of the dates 0..MaxDay to the blocks 0..head, in any order
\* (each date by its midnight): the code takes whatever timestamps the node
\* reports, ordered or not
Midnights == {d * SecondsPerDay : d \in 0..MaxDay}
AnyChains == UNION {[1..(h + 1) -> Midnights] : h \in 0..MaxHead}

Head_(c) == Len(c) - 1

\* eth_blockNumber: the hex string of the head number
eth_blockNumber(c) == hex(Head_(c))

\* eth_getBlockByNumber: the node parses the block parameter and answers
\* with the block's hex timestamp
eth_getBlockByNumber(c, param) == hex(c[int16(param).v + 1])

----------------------------------------------------------------------------
(* call_rpc and call_rpc_batch: one requests.post per step *)

NewCall == [tries |-> 0, fails |-> 0, sleeps |-> 0]
NoCall == [tries |-> 0, fails |-> 0, sleeps |-> 0, ret |-> "none"]

\* range(retries + 1)
InRange_OneMore(a) == a <= retries

\* call_rpc, for attempt in range(retries): is a an attempt of the loop?
InRange(a) == a < retries

\* call_rpc, line 41: time.sleep(delay) after the failure of attempt a?
SleepsAfterFailure(a) == a < retries - 1

\* range(retries + 1) in call_rpc_batch
BatchInRange_OneMore(a) == a <= retries

\* call_rpc_batch, for attempt in range(retries)
BatchInRange(a) == a < retries

\* call_rpc_batch, line 58
BatchSleepsAfterFailure(a) == a < retries - 1

\* the record of a call after one more post
Posted(r, failed, slept) ==
    [tries |-> r.tries + 1,
     fails |-> r.fails + (IF failed THEN 1 ELSE 0),
     sleeps |-> r.sleeps + (IF slept THEN 1 ELSE 0)]

Returned(r, ret) ==
    [tries |-> r.tries, fails |-> r.fails, sleeps |-> r.sleeps, ret |-> ret]

----------------------------------------------------------------------------
(* get_closest_block_timestamp *)

NoBlock == [block |-> None, datetime |-> None]

\* a linear probe: the midpoint taken at low
mid_AtLow(l, h) == l

\* line 73
mid(l, h) == (l + h) \div 2

\* SearchStep without the assignment of line 87
SearchStep_NoCandidate(l, h, cb, cd, m, ts, target) ==
    LET block_date == DateOf(ts)
    IN  IF block_date = target
        THEN [low |-> l, high |-> h, chosen_block |-> cb, chosen_datetime |-> cd,
              exact |-> TRUE]
        ELSE IF block_date < target
        THEN [low |-> m + 1, high |-> h, chosen_block |-> cb,
              chosen_datetime |-> cd, exact |-> FALSE]
        ELSE [low |-> l, high |-> m - 1, chosen_block |-> cb, chosen_datetime |-> cd,
              exact |-> FALSE]

\* SearchStep with a block of the target date handled as a later one
SearchStep_ExactAsLater(l, h, cb, cd, m, ts, target) ==
    LET block_date == DateOf(ts)
    IN  IF block_date < target
        THEN [low |-> m + 1, high |-> h, chosen_block |-> Some(m),
              chosen_datetime |-> Some(ts), exact |-> FALSE]
        ELSE [low |-> l, high |-> m - 1, chosen_block |-> cb, chosen_datetime |-> cd,
              exact |-> FALSE]

\* SearchStep with the two halves exchanged
SearchStep_Swapped(l, h, cb, cd, m, ts, target) ==
    LET block_date == DateOf(ts)
    IN  IF block_date = target
        THEN [low |-> l, high |-> h, chosen_block |-> cb, chosen_datetime |-> cd,
              exact |-> TRUE]
        ELSE IF block_date < target
        THEN [low |-> l, high |-> m - 1, chosen_block |-> Some(m),
              chosen_datetime |-> Some(ts), exact |-> FALSE]
        ELSE [low |-> m + 1, high |-> h, chosen_block |-> cb, chosen_datetime |-> cd,
              exact |-> FALSE]

\* One iteration of the search loop after block m answered with timestamp ts:
\* the new low, high, chosen_block, chosen_datetime, and whether the function
\* returns (m, block_datetime) at once.
SearchStep(l, h, cb, cd, m, ts, target) ==
    LET block_date == DateOf(ts)
    IN  IF block_date = target
        THEN [low |-> l, high |-> h, chosen_block |-> cb, chosen_datetime |-> cd,
              exact |-> TRUE]
        ELSE IF block_date < target
        THEN [low |-> m + 1, high |-> h, chosen_block |-> Some(m),
              chosen_datetime |-> Some(ts), exact |-> FALSE]
        ELSE [low |-> l, high |-> m - 1, chosen_block |-> cb, chosen_datetime |-> cd,
              exact |-> FALSE]

\* while low < high
SearchContinues_Strict(l, h) == l < h

\* while low <= high
SearchContinues(l, h) == l <= h

NoSupplies == [n \in {} |-> None]

\* the variables an operation does not use
ResolveIdle ==
    /\ chain = <<0>>
    /\ target_date = 0
    /\ low = 0
    /\ high = 0
    /\ chosen_block = None
    /\ chosen_datetime = None
    /\ fetched = <<>>
    /\ headCalls = 0
    /\ oracleFailed = FALSE
    /\ resolved = NoBlock

ReadIdle ==
    /\ outer_attempt = 0
    /\ supplies = NoSupplies
    /\ readResult = None
    /\ batches = 0
    /\ batch_payload = <<>>
    /\ netCalls = 0
    /\ netFails = 0
    /\ outerSleeps = 0

RpcIdle ==
    /\ attempt = 0
    /\ rpc = NewCall
    /\ lastCall = NoCall

DriverIdle ==
    /\ start_date = 0
    /\ end_date = 0
    /\ current_date = 0
    /\ data_rows = <<>>
    /\ calling = "none"
    /\ processed = <<>>

TwiceIdle ==
    /\ run = 0
    /\ script = <<>>
    /\ firstResult = None

\* get_closest_block_timestamp(target_date) is called against an ordered chain
InitResolve ==
    /\ pc = "resolve"
    /\ chain \in MonotoneChains
    /\ target_date \in 0..MaxDay
    /\ low = 0
    /\ high = 0
    /\ chosen_block = None
    /\ chosen_datetime = None
    /\ fetched = <<>>
    /\ headCalls = 0
    /\ oracleFailed = FALSE
    /\ resolved = NoBlock
    /\ RpcIdle
    /\ ReadIdle
    /\ DriverIdle
    /\ TwiceIdle
    /\ responses = <<>>

\* get_closest_block_timestamp(target_date) is called against a node that may
\* date its blocks in any order
InitResolveAny ==
    /\ pc = "resolve"
    /\ chain \in AnyChains
    /\ target_date \in 0..MaxDay
    /\ low = 0
    /\ high = 0
    /\ chosen_block = None
    /\ chosen_datetime = None
    /\ fetched = <<>>
    /\ headCalls = 0
    /\ oracleFailed = FALSE
    /\ resolved = NoBlock
    /\ RpcIdle
    /\ ReadIdle
    /\ DriverIdle
    /\ TwiceIdle
    /\ responses = <<>>

\* line 63: call_rpc("eth_blockNumber", []) is entered
ResolveStart ==
    /\ pc = "resolve"
    /\ pc' = "eth_blockNumber"
    /\ headCalls' = headCalls + 1
    /\ attempt' = 0
    /\ rpc' = NewCall
    /\ UNCHANGED <<chain, target_date, low, high, chosen_block, chosen_datetime,
                   fetched, oracleFailed, resolved, lastCall, readVars, responses,
                   callerVars>>

\* lines 64-66 and 75-77: the oracle call gave nothing usable
ResolveAbort ==
    /\ pc' = "done"
    /\ resolved' = NoBlock
    /\ oracleFailed' = TRUE
    /\ attempt' = 0
    /\ UNCHANGED <<chain, target_date, low, high, chosen_block, chosen_datetime,
                   fetched, headCalls>>

\* the search loop from its test: the next fetch is issued, or the loop ends
\* and chosen_block, chosen_datetime are returned (lines 72-74, 91)
SearchLoop(l, h, cb, cd) ==
    /\ low' = l
    /\ high' = h
    /\ chosen_block' = cb
    /\ chosen_datetime' = cd
    /\ attempt' = 0
    /\ IF SearchContinues(l, h)
       THEN /\ pc' = "eth_getBlockByNumber"
            /\ fetched' = Append(fetched, mid(l, h))
            /\ UNCHANGED resolved
       ELSE /\ pc' = "done"
            /\ resolved' = [block |-> cb, datetime |-> cd]
            /\ UNCHANGED fetched

\* RpcFail with the test of line 64 left out: the search starts at head 0
RpcFail_HeadIgnored ==
    /\ pc \in {"eth_blockNumber", "eth_getBlockByNumber"}
    /\ IF InRange(attempt + 1)
       THEN /\ rpc' = Posted(rpc, TRUE, SleepsAfterFailure(attempt))
            /\ attempt' = attempt + 1
            /\ UNCHANGED <<pc, resolveVars, lastCall>>
       ELSE /\ lastCall' = Returned(Posted(rpc, TRUE, SleepsAfterFailure(attempt)),
                                    "Unavailable")
            /\ rpc' = NewCall
            /\ IF pc = "eth_blockNumber"
               THEN /\ SearchLoop(0, 0, None, None)
                    /\ UNCHANGED <<chain, target_date, headCalls, oracleFailed>>
               ELSE ResolveAbort
    /\ UNCHANGED <<readVars, responses,
                   callerVars>>

\* RpcFail with line 77 returning chosen_block, chosen_datetime
RpcFail_KeepsCandidate ==
    /\ pc \in {"eth_blockNumber", "eth_getBlockByNumber"}
    /\ IF InRange(attempt + 1)
       THEN /\ rpc' = Posted(rpc, TRUE, SleepsAfterFailure(attempt))
            /\ attempt' = attempt + 1
            /\ UNCHANGED <<pc, resolveVars, lastCall>>
       ELSE /\ lastCall' = Returned(Posted(rpc, TRUE, SleepsAfterFailure(attempt)),
                                    "Unavailable")
            /\ rpc' = NewCall
            /\ pc' = "done"
            /\ resolved' = [block |-> chosen_block, datetime |-> chosen_datetime]
            /\ oracleFailed' = TRUE
            /\ attempt' = 0
            /\ UNCHANGED <<chain, target_date, low, high, chosen_block,
                           chosen_datetime, fetched, headCalls>>
    /\ UNCHANGED <<readVars, responses,
                   callerVars>>

\* lines 39-43: the post of the current attempt raised RequestException
RpcFail ==
    /\ pc \in {"eth_blockNumber", "eth_getBlockByNumber"}
    /\ IF InRange(attempt + 1)
       THEN /\ rpc' = Posted(rpc, TRUE, SleepsAfterFailure(attempt))
            /\ attempt' = attempt + 1
            /\ UNCHANGED <<pc, resolveVars, lastCall>>
       ELSE /\ lastCall' = Returned(Posted(rpc, TRUE, SleepsAfterFailure(attempt)),
                                    "Unavailable")
            /\ rpc' = NewCall
            /\ ResolveAbort
    /\ UNCHANGED <<readVars, responses,
                   callerVars>>

\* lines 63-69: eth_blockNumber answered with a result
HeadOk ==
    /\ pc = "eth_blockNumber"
    /\ lastCall' = Returned(Posted(rpc, FALSE, FALSE), "response")
    /\ rpc' = NewCall
    /\ LET latest_block_number == int16(eth_blockNumber(chain)).v
       IN  SearchLoop(0, latest_block_number, None, None)
    /\ UNCHANGED <<chain, target_date, headCalls, oracleFailed, readVars, responses,
                   callerVars>>

\* lines 74-89: eth_getBlockByNumber answered with a result
BlockOk ==
    /\ pc = "eth_getBlockByNumber"
    /\ lastCall' = Returned(Posted(rpc, FALSE, FALSE), "response")
    /\ rpc' = NewCall
    /\ LET m == mid(low, high)
           block_timestamp == int16(eth_getBlockByNumber(chain, hex(m))).v
           st == SearchStep(low, high, chosen_block, chosen_datetime, m,
                            block_timestamp, target_date)
       IN  IF st.exact
           THEN /\ pc' = "done"
                /\ resolved' = [block |-> Some(m), datetime |-> Some(block_timestamp)]
                /\ attempt' = 0
                /\ UNCHANGED <<low, high, chosen_block, chosen_datetime, fetched>>
           ELSE SearchLoop(st.low, st.high, st.chosen_block, st.chosen_datetime)
    /\ UNCHANGED <<chain, target_date, headCalls, oracleFailed, readVars, responses,
                   callerVars>>

\* lines 64 and 75: the post succeeded but the JSON body is empty or has no
\* "result" member (a JSON-RPC error object)
RpcNoResult ==
    /\ pc \in {"eth_blockNumber", "eth_getBlockByNumber"}
    /\ lastCall' = Returned(Posted(rpc, FALSE, FALSE), "response")
    /\ rpc' = NewCall
    /\ ResolveAbort
    /\ UNCHANGED <<readVars, responses,
                   callerVars>>

NextResolve == ResolveStart \/ RpcFail \/ HeadOk \/ BlockOk \/ RpcNoResult

SpecResolve == InitResolve /\ [][NextResolve]_vars

SpecResolveAny == InitResolveAny /\ [][NextResolve]_vars

\* the function runs on: every post is answered or fails, and the code takes
\* its next step
FairResolveAny == SpecResolveAny /\ WF_vars(NextResolve)

----------------------------------------------------------------------------
(* get_token_total_supplies *)

TOKENS == <<[name |-> "USDC", decimals |-> 6],
            [name |-> "USDT", decimals |-> 6],
            [name |-> "SFASTUSD", decimals |-> 18]>>

TokenNames == {TOKENS[i].name : i \in 1..Len(TOKENS)}

\* lines 94-110: one eth_call request per token, numbered by enumerate from 0
BuildPayload ==
    [i \in 1..Len(TOKENS) |-> [id |-> i - 1, to |-> TOKENS[i].name]]

\* lines 95-110: request i of the batch is the one of token i (enumerate from 0);
\* id_to_token.get(resp_id) is None for any other id
id_to_token(resp_id) ==
    IF resp_id.some /\ resp_id.v \in 0..(Len(TOKENS) - 1)
    THEN Some(TOKENS[resp_id.v + 1])
    ELSE None

\* lines 125-131: the supply decoded from resp.get("result")
DecodeResult(result_hex) ==
    IF result_hex = None \/ result_hex = Some(Str_0x)
                         \/ result_hex = Some(Str_0x0)
    THEN Some(0)
    ELSE int16(result_hex.v)

\* line 132: token_supplies[name] = supply
Store(token_supplies, name, supply) ==
    [n \in (DOMAIN token_supplies) \cup {name} |->
        IF n = name THEN supply ELSE token_supplies[n]]

\* the loop over the responses, left at the first response of an unknown id
RECURSIVE DecodeLoop_BreakOnUnknown(_, _)
DecodeLoop_BreakOnUnknown(resps, token_supplies) ==
    IF resps = <<>> THEN token_supplies
    ELSE LET resp == Head(resps)
             token_info == id_to_token(resp.id)
         IN  IF token_info = None
             THEN token_supplies
             ELSE DecodeLoop_BreakOnUnknown(Tail(resps),
                      Store(token_supplies, token_info.v.name,
                            DecodeResult(resp.result)))

\* the loop over the responses, pairing response i with request i
DecodeLoop_Positional(resps, token_supplies) ==
    LET n == IF Len(resps) < Len(TOKENS) THEN Len(resps) ELSE Len(TOKENS)
    IN  [name \in {TOKENS[i].name : i \in 1..n} |->
            LET i == CHOOSE k \in 1..n : TOKENS[k].name = name
            IN  DecodeResult(resps[i].result)]

\* lines 119-132: the loop over the responses
RECURSIVE DecodeLoop(_, _)
DecodeLoop(resps, token_supplies) ==
    IF resps = <<>> THEN token_supplies
    ELSE LET resp == Head(resps)
             token_info == id_to_token(resp.id)
         IN  IF token_info = None
             THEN DecodeLoop(Tail(resps), token_supplies)
             ELSE DecodeLoop(Tail(resps),
                             Store(token_supplies, token_info.v.name,
                                   DecodeResult(resp.result)))

\* lines 114-117: call_rpc_batch returned None
AllUnavailable == [n \in TokenNames |-> None]

\* lines 112-134, given what call_rpc_batch returned (None or Some(list))
get_token_total_supplies(batch) ==
    IF batch = None THEN AllUnavailable ELSE DecodeLoop(batch.v, NoSupplies)

\* line 139: the test of the outer retry loop
Accepted(s) == s # NoSupplies /\ \A n \in DOMAIN s : s[n] # None

\* range(max_retries + 1)
OuterInRange_OneMore(a) == a <= max_retries

\* line 137: for attempt in range(max_retries)
OuterInRange(a) == a < max_retries

----------------------------------------------------------------------------
(* The batch responses of the node *)

Str(s) == Some(s)

\* values of a response's "result" member: a hex number and a string that is
\* no number; for the decoding loop on its own also an absent result, the two
\* zero sentinels and a signed number
ReadResults == {Str(Text(<<"0", "x", "3", "e", "8">>)),
                Str(Text(<<"n", "o", "t", "-", "h", "e", "x">>))}
DecodeResults ==
    ReadResults \cup {None, Str(Str_0x), Str(Str_0x0),
                      Str(Text(<<"-", "0", "x", "1">>))}

\* the ids of the requests, and one id no request carries
ResponseIds == {Some(i) : i \in 0..Len(TOKENS)}

ResponsesOver(results) == [id : ResponseIds, result : results]

BodiesOver(results) ==
    UNION {[1..n -> ResponsesOver(results)] : n \in 0..MaxResp}

----------------------------------------------------------------------------
(* get_token_total_supplies_with_retries *)

InitRead ==
    /\ pc = "readAll"
    /\ ResolveIdle
    /\ RpcIdle
    /\ ReadIdle
    /\ DriverIdle
    /\ TwiceIdle
    /\ responses = <<>>

\* EnterRead with the attempt counter kept where the last call left it
EnterRead_KeepsAttempt ==
    /\ pc' = "eth_call_batch"
    /\ outer_attempt' = outer_attempt
    /\ batches' = batches + 1
    /\ batch_payload' = BuildPayload
    /\ attempt' = 0
    /\ rpc' = NewCall
    /\ UNCHANGED <<resolveVars, lastCall, supplies, readResult, netCalls,
                   netFails, outerSleeps, responses, driverVars>>

\* lines 137-138, 94-112 and 46: what entering the function assigns, up to the
\* first post
EnterRead ==
    /\ pc' = "eth_call_batch"
    /\ outer_attempt' = 0
    /\ batches' = batches + 1
    /\ batch_payload' = BuildPayload
    /\ attempt' = 0
    /\ rpc' = NewCall
    /\ UNCHANGED <<resolveVars, lastCall, supplies, readResult, netCalls,
                   netFails, outerSleeps, responses, driverVars>>

\* the endpoint's answer to a post (None: RequestException, Some(body): a JSON
\* list): free, recorded during the first of two calls, or replayed during the
\* second
Transport(outcome) ==
    IF run = 0 THEN UNCHANGED twiceVars
    ELSE IF run = 1
    THEN /\ script' = Append(script, outcome)
         /\ UNCHANGED <<run, firstResult>>
    ELSE /\ script # <<>>
         /\ Head(script) = outcome
         /\ script' = Tail(script)
         /\ UNCHANGED <<run, firstResult>>

\* get_token_total_supplies_with_retries(block_number) is called
ReadStart ==
    /\ pc = "readAll"
    /\ EnterRead
    /\ UNCHANGED twiceVars

\* OuterStep with the budget tested before the mapping: the mapping of the
\* last attempt is never returned
OuterStep_BudgetFirst(s) ==
    /\ attempt' = 0
    /\ IF ~OuterInRange(outer_attempt + 1)
       THEN /\ pc' = "done"
            /\ supplies' = s
            /\ readResult' = None
            /\ outerSleeps' = outerSleeps + 1
            /\ UNCHANGED <<outer_attempt, batches, batch_payload>>
       ELSE IF Accepted(s)
       THEN /\ pc' = "done"
            /\ supplies' = s
            /\ readResult' = Some(s)
            /\ UNCHANGED <<outer_attempt, batches, batch_payload, outerSleeps>>
       ELSE /\ outerSleeps' = outerSleeps + 1
            /\ outer_attempt' = outer_attempt + 1
            /\ batches' = batches + 1
            /\ batch_payload' = BuildPayload
            /\ supplies' = s
            /\ UNCHANGED <<pc, readResult>>

\* OuterStep with the test of line 139 after the loop: every attempt is
\* followed by another while the budget lasts, and the mapping of the last one
\* is returned when it is accepted
OuterStep_RetriesToTheEnd(s) ==
    /\ attempt' = 0
    /\ supplies' = s
    /\ IF OuterInRange(outer_attempt + 1)
       THEN /\ outerSleeps' = outerSleeps + 1
            /\ outer_attempt' = outer_attempt + 1
            /\ batches' = batches + 1
            /\ batch_payload' = BuildPayload
            /\ UNCHANGED <<pc, readResult>>
       ELSE /\ pc' = "done"
            /\ readResult' = IF Accepted(s) THEN Some(s) ELSE None
            /\ outerSleeps' = IF Accepted(s) THEN outerSleeps ELSE outerSleeps + 1
            /\ UNCHANGED <<outer_attempt, batches, batch_payload>>

\* lines 138-142: get_token_total_supplies returned s on the current attempt;
\* supplies holds s whether the attempt is accepted, retried or the last one
OuterStep(s) ==
    /\ attempt' = 0
    /\ IF Accepted(s)
       THEN /\ pc' = "done"
            /\ supplies' = s
            /\ readResult' = Some(s)
            /\ UNCHANGED <<outer_attempt, batches, batch_payload, outerSleeps>>
       ELSE /\ outerSleeps' = outerSleeps + 1
            /\ IF OuterInRange(outer_attempt + 1)
               THEN /\ outer_attempt' = outer_attempt + 1
                    /\ batches' = batches + 1
                    /\ batch_payload' = BuildPayload
                    /\ supplies' = s
                    /\ UNCHANGED <<pc, readResult>>
               ELSE /\ pc' = "done"
                    /\ supplies' = s
                    /\ readResult' = None
                    /\ UNCHANGED <<outer_attempt, batches, batch_payload>>

\* lines 56-60: the batch post of the current attempt raised RequestException
BatchFail ==
    /\ pc = "eth_call_batch"
    /\ netCalls' = netCalls + 1
    /\ netFails' = netFails + 1
    /\ IF BatchInRange(attempt + 1)
       THEN /\ rpc' = Posted(rpc, TRUE, BatchSleepsAfterFailure(attempt))
            /\ attempt' = attempt + 1
            /\ UNCHANGED <<pc, lastCall, outer_attempt, supplies, readResult,
                           batches, batch_payload, outerSleeps>>
       ELSE /\ lastCall' = Returned(Posted(rpc, TRUE, BatchSleepsAfterFailure(attempt)),
                                    "Unavailable")
            /\ rpc' = NewCall
            /\ OuterStep(get_token_total_supplies(None))
    /\ Transport(None)
    /\ UNCHANGED <<resolveVars, responses, driverVars>>

\* lines 48-55 and 112-134: the batch post succeeded with the JSON list body
BatchOkWith(body) ==
    /\ pc = "eth_call_batch"
    /\ netCalls' = netCalls + 1
    /\ lastCall' = Returned(Posted(rpc, FALSE, FALSE), "response")
    /\ rpc' = NewCall
    /\ OuterStep(get_token_total_supplies(Some(body)))
    /\ Transport(Some(body))
    /\ UNCHANGED <<resolveVars, netFails, responses, driverVars>>

\* what the bodies of BodiesOver(ReadResults) decode to
ReadMappings ==
    {get_token_total_supplies(Some(body)) : body \in BodiesOver(ReadResults)}

\* one body for each of these mappings: while the endpoint answers freely,
\* BatchOkWith(body) depends on body through get_token_total_supplies(Some(body))
\* alone, so these bodies give every step the bodies of BodiesOver(ReadResults)
\* give
ReadBodies ==
    {CHOOSE body \in BodiesOver(ReadResults) :
         get_token_total_supplies(Some(body)) = m : m \in ReadMappings}

BatchOk ==
    /\ pc = "eth_call_batch"
    /\ \E body \in ReadBodies : BatchOkWith(body)

NextRead == ReadStart \/ BatchFail \/ BatchOk

SpecRead == InitRead /\ [][NextRead]_vars

----------------------------------------------------------------------------
(* Two successive calls of get_token_total_supplies_with_retries with the same
   block number, against an endpoint that answers the posts of the second call
   as it answered the posts of the first *)

Response(id, result) == [id |-> Some(id), result |-> Str(result)]

\* a list answering every request (one number between a form feed and a
\* vertical tab), one with an undecodable result, one with the response of a
\* request missing, and the empty list
SampleBodies ==
    LET thousand == Text(<<"0", "x", "3", "e", "8">>)
        padded == <<12>> \o thousand \o <<11>>
        zero == Text(<<"0", "x", "0">>)
        junk == Text(<<"n", "o", "t", "-", "h", "e", "x">>)
    IN  {<<Response(0, thousand), Response(1, padded), Response(2, zero)>>,
         <<Response(0, thousand), Response(1, junk), Response(2, zero)>>,
         <<Response(1, thousand), Response(0, zero)>>,
         <<>>}

InitTwice ==
    /\ pc = "readAll"
    /\ ResolveIdle
    /\ RpcIdle
    /\ ReadIdle
    /\ DriverIdle
    /\ responses = <<>>
    /\ run = 1
    /\ script = <<>>
    /\ firstResult = None

SampleBatchOk ==
    /\ pc = "eth_call_batch"
    /\ \E body \in SampleBodies : BatchOkWith(body)

\* the first call returned; the function is called again: nothing but what the
\* function assigns on entry is changed
ReadAgain ==
    /\ pc = "done"
    /\ run = 1
    /\ run' = 2
    /\ firstResult' = readResult
    /\ EnterRead
    /\ UNCHANGED script

NextTwice == ReadStart \/ BatchFail \/ SampleBatchOk \/ ReadAgain

SpecTwice == InitTwice /\ [][NextTwice]_vars

----------------------------------------------------------------------------
(* get_data_for_date_range *)

DecChars == Text(<<"0", "1", "2", "3", "4", "5", "6", "7", "8", "9">>)

\* the decimal digits of n >= 0, as many as it has
RECURSIVE DecimalOf(_)
DecimalOf(n) ==
    IF n < 10 THEN <<DecChars[n + 1]>>
    ELSE Append(DecimalOf(n \div 10), DecChars[(n % 10) + 1])

\* the decimal digits of n, zero-padded to width
RECURSIVE Decimal(_, _)
Decimal(n, width) ==
    IF width = 0 THEN <<>>
    ELSE Append(Decimal(n \div 10, width - 1), DecChars[(n % 10) + 1])

\* the calendar date of a day ordinal (days since 1970-01-01)
CivilDate(days) ==
    LET z == days + 719468
        era == z \div 146097
        doe == z - era * 146097
        yoe == (doe - doe \div 1460 + doe \div 36524 - doe \div 146096) \div 365
        doy == doe - (365 * yoe + yoe \div 4 - yoe \div 100)
        mp == (5 * doy + 2) \div 153
        m == IF mp < 10 THEN mp + 3 ELSE mp - 9
    IN  [year |-> yoe + era * 400 + (IF m <= 2 THEN 1 ELSE 0),
         month |-> m,
         day |-> doy - (153 * mp + 2) \div 5 + 1]

\* current_date.strftime('%Y-%m-%d'): %Y is the year as the C library prints
\* it, without padding (999-12-31); month and day have two digits
strftime(days) ==
    LET c == CivilDate(days)
    IN  DecimalOf(c.year) \o <<MinusSign>> \o Decimal(c.month, 2)
            \o <<MinusSign>> \o Decimal(c.day, 2)

\* raw_supply / (10 ** decimals): the quotient, kept as its two terms
Scaled(raw_supply, decimals) == [raw |-> raw_supply, decimals |-> decimals]

\* lines 162-168: the row of a date
BuildRow(date, block_number, token_supplies) ==
    [k \in {"date", "block"} \cup TokenNames |->
        IF k = "date" THEN strftime(date)
        ELSE IF k = "block" THEN block_number
        ELSE LET token == CHOOSE t \in {TOKENS[i] : i \in 1..Len(TOKENS)} : t.name = k
                 raw_supply == IF k \in DOMAIN token_supplies
                               THEN token_supplies[k] ELSE None
             IN  IF raw_supply.some
                 THEN Some(Scaled(raw_supply.v, token.decimals))
                 ELSE None]

\* chains of two blocks mined at midnight of different days
DriverChains ==
    {c \in MonotoneChains : /\ Len(c) = 2
                    /\ c[1] < c[2]
                    /\ \A i \in 1..Len(c) : c[i] % SecondsPerDay = 0}

\* lines 145-146
InitDriver ==
    /\ pc = "driver"
    /\ chain \in DriverChains
    /\ start_date \in 0..MaxDay
    /\ end_date \in 0..MaxDay
    /\ current_date = start_date
    /\ data_rows = <<>>
    /\ calling = "none"
    /\ processed = <<>>
    /\ target_date = 0
    /\ low = 0
    /\ high = 0
    /\ chosen_block = None
    /\ chosen_datetime = None
    /\ fetched = <<>>
    /\ headCalls = 0
    /\ oracleFailed = FALSE
    /\ resolved = NoBlock
    /\ RpcIdle
    /\ ReadIdle
    /\ TwiceIdle
    /\ responses = <<>>

\* lines 148-150: the loop test; get_closest_block_timestamp(current_date) is
\* called, or data_rows is returned (line 173)
LoopTest ==
    /\ pc = "driver"
    /\ IF current_date <= end_date
       THEN /\ pc' = "resolve"
            /\ target_date' = current_date
            /\ calling' = "resolve"
       ELSE /\ pc' = "returned"
            /\ UNCHANGED <<target_date, calling>>
    /\ UNCHANGED <<chain, low, high, chosen_block, chosen_datetime, fetched,
                   headCalls, oracleFailed, resolved, rpcVars, readVars, responses,
                   start_date, end_date, current_date, data_rows, processed,
                   twiceVars>>

\* the frames of call_rpc and get_closest_block_timestamp are gone
ResolveReturned ==
    /\ low' = 0
    /\ high' = 0
    /\ chosen_block' = None
    /\ chosen_datetime' = None
    /\ fetched' = <<>>
    /\ headCalls' = 0
    /\ oracleFailed' = FALSE
    /\ attempt' = 0
    /\ rpc' = NewCall
    /\ lastCall' = NoCall

\* the frames of call_rpc_batch and get_token_total_supplies_with_retries are
\* gone, and block_number, block_datetime are assigned anew before their next use
ReadReturned ==
    /\ resolved' = NoBlock
    /\ outer_attempt' = 0
    /\ supplies' = NoSupplies
    /\ readResult' = None
    /\ batches' = 0
    /\ batch_payload' = <<>>
    /\ netCalls' = 0
    /\ netFails' = 0
    /\ outerSleeps' = 0
    /\ attempt' = 0
    /\ rpc' = NewCall
    /\ lastCall' = NoCall

\* the loop body ran for current_date with these results of the two calls
Processed(block_number, token_supplies) ==
    processed' = Append(processed, [date |-> current_date, block |-> block_number,
                                    read |-> token_supplies])

\* the skipped date ends the loop (break)
Skip_Stops ==
    /\ pc' = "returned"
    /\ current_date' = current_date
    /\ calling' = "none"
    /\ UNCHANGED data_rows

\* lines 153-154 and 159-160: current_date += timedelta(days=1); continue
Skip ==
    /\ pc' = "driver"
    /\ current_date' = current_date + 1
    /\ calling' = "none"
    /\ UNCHANGED data_rows

\* lines 150-156: get_closest_block_timestamp returned
AfterResolve ==
    /\ pc = "done"
    /\ calling = "resolve"
    /\ ResolveReturned
    /\ IF resolved.block = None
       THEN /\ Skip
            /\ Processed(None, None)
            /\ resolved' = NoBlock
       ELSE /\ pc' = "readAll"
            /\ calling' = "readAll"
            /\ UNCHANGED <<resolved, current_date, data_rows, processed>>
    /\ UNCHANGED <<chain, target_date, readVars, responses, start_date, end_date,
                   twiceVars>>

\* lines 156-171: get_token_total_supplies_with_retries returned
AfterRead ==
    /\ pc = "done"
    /\ calling = "readAll"
    /\ ReadReturned
    /\ Processed(resolved.block, readResult)
    /\ IF readResult = None
       THEN Skip
       ELSE /\ data_rows' = Append(data_rows,
                                  BuildRow(current_date, resolved.block.v, readResult.v))
            /\ current_date' = current_date + 1
            /\ pc' = "driver"
            /\ calling' = "none"
    /\ UNCHANGED <<chain, target_date, low, high, chosen_block, chosen_datetime,
                   fetched, headCalls, oracleFailed, responses, start_date,
                   end_date, twiceVars>>

NextDriver ==
    \/ LoopTest
    \/ ResolveStart \/ RpcFail \/ HeadOk \/ BlockOk \/ RpcNoResult
    \/ AfterResolve
    \/ ReadStart \/ BatchFail \/ SampleBatchOk
    \/ AfterRead

SpecDriver == InitDriver /\ [][NextDriver]_vars

\* the loop runs on: every post is answered or fails, every call returns
FairDriver == SpecDriver /\ WF_vars(NextDriver)

----------------------------------------------------------------------------
(* The decoding loop of get_token_total_supplies on its own *)

InitDecode ==
    /\ pc = "decode"
    /\ responses \in BodiesOver(DecodeResults)
    /\ ResolveIdle
    /\ RpcIdle
    /\ ReadIdle
    /\ DriverIdle
    /\ TwiceIdle

\* lines 113-134 on the list call_rpc_batch returned
Decode ==
    /\ pc = "decode"
    /\ pc' = "decoded"
    /\ supplies' = get_token_total_supplies(Some(responses))
    /\ UNCHANGED <<resolveVars, rpcVars, outer_attempt, readResult, batches,
                   batch_payload, netCalls, netFails, outerSleeps, responses,
                   callerVars>>

NextDecode == Decode

SpecDecode == InitDecode /\ [][NextDecode]_vars

----------------------------------------------------------------------------

Init == InitResolve \/ InitRead
Next == NextResolve \/ NextRead
Spec == Init /\ [][Next]_vars

----------------------------------------------------------------------------
(* Properties of get_closest_block_timestamp *)

\* the result of a linear scan: the greatest block dated on or before the target
BruteForce(c, target) ==
    LET ok == {n \in 0..Head_(c) : DateOf(c[n + 1]) <= target}
    IN  IF ok = {} THEN None
        ELSE Some(CHOOSE n \in ok : \A k \in ok : k <= n)

ResolvedCleanly == pc = "done" /\ headCalls = 1 /\ ~oracleFailed

\* C1 as stated: with no failed oracle call, get_closest_block_timestamp
\* returns exactly the block of the linear scan, or None when the scan finds
\* no block.
C1_EqualsLinearScan ==
    ResolvedCleanly => resolved.block = BruteForce(chain, target_date)

\* C1 amended: with no failed oracle call, the function returns None exactly
\* when no block is dated on or before the target; otherwise it returns a
\* block, with its timestamp, whose date is the date of the linear scan's
\* block, and that very block whenever no block has the target date.
C1_Amended ==
    ResolvedCleanly =>
        LET bf == BruteForce(chain, target_date)
        IN  IF bf = None THEN resolved = NoBlock
            ELSE /\ resolved.block.some
                 /\ resolved.block.v \in 0..Head_(chain)
                 /\ resolved.datetime = Some(chain[resolved.block.v + 1])
                 /\ DateOf(chain[resolved.block.v + 1]) = DateOf(chain[bf.v + 1])
                 /\ (DateOf(chain[bf.v + 1]) < target_date => resolved.block = bf)

\* a search that ended on a block of the target date that is not the last one
C1_Witness ==
    /\ ResolvedCleanly
    /\ resolved.block.some
    /\ DateOf(chain[resolved.block.v + 1]) = target_date
    /\ resolved.block # BruteForce(chain, target_date)

\* the least k with 2^k >= n
RECURSIVE CeilLog2(_)
CeilLog2(n) == IF n <= 1 THEN 0 ELSE 1 + CeilLog2((n + 1) \div 2)

NoRepeat(seq) == \A i, j \in 1..Len(seq) : seq[i] = seq[j] => i = j

\* C11: whatever the head number and whatever dates the node gives its blocks,
\* ordered or not, get_closest_block_timestamp returns in the end; it has
\* issued exactly one eth_blockNumber call from its first step on, at most
\* ceil(log2(head + 1)) + 1 block fetches, and it fetches no block number
\* twice; a call in which no oracle call failed returns with these counts.
C11_TerminatesWithinBound ==
    /\ <>(pc = "done")
    /\ [](/\ headCalls = IF pc = "resolve" THEN 0 ELSE 1
          /\ Len(fetched) <= CeilLog2(Head_(chain) + 1) + 1
          /\ NoRepeat(fetched)
          /\ \A i \in 1..Len(fetched) : fetched[i] \in 0..Head_(chain)
          /\ (pc = "done" /\ ~oracleFailed) =>
                 (Len(fetched) >= 1 /\ lastCall.ret = "response"))

\* a search that used the whole bound on the longest chain, whose blocks are
\* not in the order of their dates
C11_Witness ==
    /\ pc = "done"
    /\ ~oracleFailed
    /\ headCalls = 1
    /\ ~IsMonotone(chain)
    /\ Head_(chain) = MaxHead
    /\ Len(fetched) = CeilLog2(Head_(chain) + 1) + 1
    /\ Len(fetched) < Head_(chain) + 1

BlocksDated(c, target) == {n \in 0..Head_(c) : DateOf(c[n + 1]) = target}

\* C12: when exactly one block has the target date and no oracle call fails,
\* that block is returned with its timestamp.
C12_UniqueBlockFound ==
    (ResolvedCleanly /\ Cardinality(BlocksDated(chain, target_date)) = 1) =>
        \A n \in BlocksDated(chain, target_date) :
            resolved = [block |-> Some(n), datetime |-> Some(chain[n + 1])]

\* the one block of the target date lies between earlier and later blocks and
\* was not the first midpoint
C12_Witness ==
    /\ ResolvedCleanly
    /\ Cardinality(BlocksDated(chain, target_date)) = 1
    /\ Len(fetched) >= 2
    /\ resolved.block.some
    /\ resolved.block.v > 0
    /\ resolved.block.v < Head_(chain)

\* C13: when no block has the target date and no oracle call fails, the
\* greatest block dated before the target is returned (the head block when
\* every block is earlier), and None exactly when every block is later.
C13_LatestEarlierBlock ==
    (ResolvedCleanly /\ BlocksDated(chain, target_date) = {}) =>
        LET earlier == {n \in 0..Head_(chain) : DateOf(chain[n + 1]) < target_date}
        IN  /\ resolved = NoBlock <=> earlier = {}
            /\ earlier # {} =>
                   /\ resolved.block.some
                   /\ resolved.block.v \in earlier
                   /\ \A n \in earlier : n <= resolved.block.v
                   /\ resolved.datetime = Some(chain[resolved.block.v + 1])
            /\ earlier = 0..Head_(chain) => resolved.block = Some(Head_(chain))

\* the search ended between an earlier and a later block
C13_Witness ==
    /\ ResolvedCleanly
    /\ BlocksDated(chain, target_date) = {}
    /\ Len(fetched) >= 2
    /\ resolved.block.some
    /\ resolved.block.v < Head_(chain)

\* C18: at every iteration of the search loop low is at least 0 and high at
\* most the head; every block below low is dated before the target and
\* every block above high after it; chosen_block is None with low = 0, or
\* it is low - 1, dated before the target, with its timestamp recorded.
C18_LoopInvariant ==
    pc = "eth_getBlockByNumber" =>
        /\ 0 <= low
        /\ high <= Head_(chain)
        /\ \A n \in 0..Head_(chain) :
               /\ n < low => DateOf(chain[n + 1]) < target_date
               /\ n > high => DateOf(chain[n + 1]) > target_date
        /\ IF chosen_block = None THEN low = 0 /\ chosen_datetime = None
           ELSE /\ chosen_block.v = low - 1
                /\ DateOf(chain[chosen_block.v + 1]) < target_date
                /\ chosen_datetime = Some(chain[chosen_block.v + 1])

\* an iteration after a candidate was recorded, on a range that still has
\* blocks on both sides of it
C18_Witness ==
    /\ pc = "eth_getBlockByNumber"
    /\ Len(fetched) >= 2
    /\ chosen_block.some
    /\ low < high

\* C6: the step in which the eth_blockNumber call returns Unavailable ends the
\* resolution with (None, None) and no block fetch has been issued; nothing
\* is issued after the function returned.
C6_HeadUnavailable ==
    [][/\ (pc = "eth_blockNumber" /\ lastCall'.ret = "Unavailable")
           => (pc' = "done" /\ resolved' = NoBlock /\ fetched' = <<>>)
       /\ pc = "done" => (fetched' = fetched /\ headCalls' = headCalls)]_vars

C6_Witness ==
    /\ pc = "done"
    /\ headCalls = 1
    /\ lastCall = [tries |-> retries, fails |-> retries, sleeps |-> retries - 1,
                   ret |-> "Unavailable"]
    /\ fetched = <<>>
    /\ resolved = NoBlock

\* C7: the step in which an eth_getBlockByNumber call returns Unavailable ends
\* the resolution with (None, None), whatever candidate was recorded, and
\* issues no further call.
C7_FetchUnavailable ==
    [][(pc = "eth_getBlockByNumber" /\ lastCall'.ret = "Unavailable")
          => /\ pc' = "done"
             /\ resolved' = NoBlock
             /\ fetched' = fetched
             /\ headCalls' = headCalls]_vars

\* a fetch failed after a candidate had been recorded
C7_Witness ==
    /\ pc = "done"
    /\ lastCall.ret = "Unavailable"
    /\ Len(fetched) >= 2
    /\ chosen_block.some
    /\ resolved = NoBlock

----------------------------------------------------------------------------
(* Properties of call_rpc and call_rpc_batch *)

\* C8: a transport call posts at most retries times; a call that returned a
\* response got it on its last post, every post before it having failed; a
\* call returned Unavailable exactly when retries posts were made and all of
\* them failed.
C8_BoundedAttempts ==
    /\ attempt \in 0..(retries - 1)
    /\ rpc.tries = attempt
    /\ rpc.fails = rpc.tries
    /\ lastCall.tries <= retries
    /\ lastCall.ret = "response" => lastCall.fails = lastCall.tries - 1
    /\ lastCall.ret = "Unavailable" <=>
           (lastCall.tries = retries /\ lastCall.fails = retries)

\* a call answered on the last attempt the budget allows
C8_Witness ==
    /\ lastCall.ret = "response"
    /\ lastCall.tries = retries
    /\ lastCall.fails = retries - 1

----------------------------------------------------------------------------
(* Properties of get_token_total_supplies_with_retries *)

FullyDecoded(s) == DOMAIN s = TokenNames /\ \A n \in TokenNames : s[n].some

\* C2 as stated: when the outer retries are exhausted and the mapping of the
\* last attempt has an Unavailable entry, that mapping is what is returned.
C2_LastMappingReturned ==
    (/\ pc = "done"
     /\ outerSleeps = max_retries
     /\ \E n \in DOMAIN supplies : supplies[n] = None)
        => readResult = Some(supplies)

\* C3 as stated: an attempt whose responses miss a submitted id is followed by
\* another attempt while the budget lasts, so a call that returned before the
\* budget was used up had a response for every id on its last attempt.
C3_MissingIdRetried ==
    (pc = "done" /\ batches < max_retries) => DOMAIN supplies = TokenNames

\* C4 as stated: every mapping returned has exactly the token names as keys.
C4_KeysAreTokenNames ==
    (pc = "done" /\ readResult.some) => DOMAIN readResult.v = TokenNames

\* C9: when the call ends on attempt number max_retries and that attempt
\* decoded every entry, the call returns that mapping.
C9_LastAttemptSucceeds ==
    (pc = "done" /\ batches = max_retries /\ FullyDecoded(supplies))
        => /\ readResult = Some(supplies)
           /\ outer_attempt = max_retries - 1
           /\ outerSleeps = max_retries - 1

C9_Witness ==
    /\ pc = "done"
    /\ batches = max_retries
    /\ outerSleeps = max_retries - 1
    /\ readResult.some
    /\ FullyDecoded(readResult.v)

Kept(entry) == entry.block.some /\ entry.read.some

\* C14: the loop over a range start_date <= end_date ends, having run its body
\* for every date of the range once, in ascending order; a date for which no
\* block was found or the supplies could not be read adds no row and the loop
\* goes on to the next date; data_rows holds one row for each other date, in
\* ascending order of date.
C14_EveryDateOnce ==
    /\ <>(pc = "returned")
    /\ [](/\ \A i \in 1..Len(processed) : processed[i].date = start_date + i - 1
          /\ Len(processed) <= IF start_date <= end_date
                               THEN end_date - start_date + 1 ELSE 0
          /\ pc = "returned" /\ start_date <= end_date
                 => Len(processed) = end_date - start_date + 1
          /\ LET kept == SelectSeq(processed, Kept)
             IN  /\ Len(data_rows) = Len(kept)
                 /\ \A i \in 1..Len(kept) :
                        /\ data_rows[i]["date"] = strftime(kept[i].date)
                        /\ data_rows[i]["block"] = kept[i].block.v
          /\ \A i, j \in 1..Len(data_rows) :
                 i < j => data_rows[i]["date"] # data_rows[j]["date"])

\* the loop ended after a date without block, a date whose supplies could not
\* be read and a date with a row
C14_Witness ==
    /\ pc = "returned"
    /\ Len(processed) >= 3
    /\ ~processed[1].block.some
    /\ processed[2].block.some
    /\ ~processed[2].read.some
    /\ Kept(processed[3])
    /\ Len(data_rows) = 1

\* C15: the second of two calls, whose posts are answered as the posts of the
\* first were, asks for no answer the first did not get, uses up all of them,
\* and returns what the first returned.
C15_SameOutcomesSameMapping ==
    /\ (run = 2 /\ pc = "done") => (readResult = firstResult /\ script = <<>>)
    /\ (run = 2 /\ pc # "done") => script # <<>>

\* the second call returned a mapping on a later attempt than the first one
C15_Witness ==
    /\ run = 2
    /\ pc = "done"
    /\ outer_attempt >= 1
    /\ readResult.some
    /\ firstResult.some

\* a step that ends a call of get_token_total_supplies: supplies' is the
\* mapping this attempt decoded
AttemptEnds == netCalls' # netCalls /\ rpc' = NewCall

HasUnavailable(s) == \E n \in DOMAIN s : s[n] = None

\* C16: at most max_retries batches are submitted; every batch submitted, the
\* first and each resubmission, carries the request of every token; an attempt
\* whose mapping has an Unavailable entry (as every entry is when the batch
\* call gave nothing) is followed by another whole batch while the budget
\* lasts, and by the return of None when it is used up; an attempt that
\* decoded every entry ends the call at once, whatever budget is left: the call
\* returns that attempt's mapping and submits no batch on that step; nothing
\* is submitted after the call ended.
C16_WholeBatchRetry ==
    [][/\ batches' <= max_retries
       /\ pc # "done"
       /\ batches' # batches =>
              /\ batches' = batches + 1
              /\ pc' = "eth_call_batch"
              /\ attempt' = 0
              /\ Len(batch_payload') = Len(TOKENS)
              /\ \A i \in 1..Len(TOKENS) :
                     id_to_token(Some(batch_payload'[i].id)) = Some(TOKENS[i])
       /\ batches' = batches => batch_payload' = batch_payload
       /\ ~AttemptEnds => (batches' = batches \/ pc = "readAll")
       /\ AttemptEnds =>
              /\ pc' = "done" \/ (pc' = "eth_call_batch" /\ batches' = batches + 1)
              /\ lastCall'.ret = "Unavailable" =>
                     (supplies' = AllUnavailable /\ HasUnavailable(supplies'))
              /\ HasUnavailable(supplies') =>
                     IF batches < max_retries
                     THEN /\ pc' = "eth_call_batch"
                          /\ batches' = batches + 1
                          /\ readResult' = readResult
                     ELSE /\ pc' = "done"
                          /\ batches' = batches
                          /\ readResult' = None
              /\ FullyDecoded(supplies') =>
                     /\ pc' = "done"
                     /\ batches' = batches
                     /\ readResult' = Some(supplies')
      ]_vars

\* the third batch is about to be posted, every request in it, after an attempt
\* that decoded the supply of one token and left another Unavailable
C16_Witness ==
    /\ pc = "eth_call_batch"
    /\ batches = max_retries
    /\ attempt = 0
    /\ netCalls >= 2
    /\ batch_payload = BuildPayload
    /\ HasUnavailable(supplies)
    /\ \E n \in DOMAIN supplies : supplies[n].some

\* C19: one call of get_token_total_supplies_with_retries never posts more than
\* max_retries * retries batch requests, and when every post raised it has
\* posted exactly that many and returns None.
C19_RetryLevelsMultiply ==
    /\ netCalls <= max_retries * retries
    /\ (pc = "done" /\ netFails = netCalls)
           => (netCalls = max_retries * retries /\ readResult = None)

\* the call ended after every post raised
C19_Witness ==
    /\ pc = "done"
    /\ netFails = netCalls
    /\ netCalls = max_retries * retries
    /\ batches = max_retries

\* C20 as stated: the delay is waited only between attempts, at both levels:
\* a transport call that posted k times slept k - 1 times, and a call of
\* get_token_total_supplies_with_retries that made k batch attempts slept
\* k - 1 times in its own loop, whether it succeeded or used up its budget.
C20_SleepsBetweenAttempts ==
    /\ lastCall.tries > 0 => lastCall.sleeps = lastCall.tries - 1
    /\ pc = "done" => outerSleeps = batches - 1

----------------------------------------------------------------------------
(* Properties of the decoding loop *)

Reorderings(seq) ==
    LET n == Len(seq)
        bij == {f \in [1..n -> 1..n] : \A a, b \in 1..n : f[a] = f[b] => a = b}
    IN  {[i \in 1..n |-> seq[f[i]]] : f \in bij}

Matched(resp) == id_to_token(resp.id) # None

\* no two responses carry the id of the same request
NoDuplicateRequestId(resps) ==
    \A i, j \in 1..Len(resps) :
        (i # j /\ resps[i].id = resps[j].id) => ~Matched(resps[i])

\* C5 as stated: every permutation of the response list decodes to the same
\* mapping.
C5_AnyOrder ==
    pc = "decoded" =>
        \A p \in Reorderings(responses) :
            get_token_total_supplies(Some(p)) = supplies

\* C5 amended: when no two responses carry the id of the same request, every
\* token with a response is mapped to the value decoded from the response with
\* its id, and every permutation of the list decodes to the same mapping.
C5_Amended ==
    (pc = "decoded" /\ NoDuplicateRequestId(responses)) =>
        /\ \A i \in 1..Len(responses) :
               Matched(responses[i]) =>
                   LET name == id_to_token(responses[i].id).v.name
                   IN  /\ name \in DOMAIN supplies
                       /\ supplies[name] = DecodeResult(responses[i].result)
        /\ \A p \in Reorderings(responses) :
               get_token_total_supplies(Some(p)) = supplies

\* the three responses arrived in reverse order, with different values
C5_Witness ==
    /\ pc = "decoded"
    /\ Len(responses) = Len(TOKENS)
    /\ \A i \in 1..Len(TOKENS) : responses[i].id = Some(Len(TOKENS) - i)
    /\ supplies["USDC"] # supplies["SFASTUSD"]
    /\ supplies["USDC"] # supplies["USDT"]

\* C17: a response whose id is the id of no request is ignored: the mapping
\* has a key for exactly the tokens whose id some response carries, and it is
\* the mapping decoded from the list without the responses of unknown id.
C17_UnknownIdIgnored ==
    pc = "decoded" =>
        /\ DOMAIN supplies =
               {id_to_token(responses[i].id).v.name :
                    i \in {k \in 1..Len(responses) : Matched(responses[k])}}
        /\ supplies = get_token_total_supplies(Some(SelectSeq(responses, Matched)))

\* a response of unknown id came before the response of a request
C17_Witness ==
    /\ pc = "decoded"
    /\ Len(responses) >= 2
    /\ ~Matched(responses[1])
    /\ Matched(responses[2])
    /\ supplies # NoSupplies

\* a hex string of the wire protocol: 0x and one or more hex digits
IsHexString(s) ==
    /\ Len(s) >= 3
    /\ SubSeq(s, 1, 2) = Str_0x
    /\ \A i \in 3..Len(s) : IsAsciiHexDigit(s[i])

\* the decoding C10 describes: zero for an absent result and the two
\* sentinels, the unsigned value of a hex string, Unavailable for the rest
ClaimedDecode(result_hex) ==
    IF result_hex = None \/ result_hex = Some(Str_0x)
                         \/ result_hex = Some(Str_0x0)
    THEN Some(0)
    ELSE IF IsHexString(result_hex.v)
    THEN Some(DigitsValue(SubSeq(result_hex.v, 3, Len(result_hex.v)), 0))
    ELSE None

\* C10 as stated: a token with exactly one response is mapped to zero, to the
\* unsigned value of its hex string, or to Unavailable when the result is no
\* hex string.
C10_DecodesAsClaimed ==
    pc = "decoded" =>
        \A i \in 1..Len(responses) :
            (/\ Matched(responses[i])
             /\ \A j \in 1..Len(responses) :
                    responses[j].id = responses[i].id => j = i)
                => supplies[id_to_token(responses[i].id).v.name]
                       = ClaimedDecode(responses[i].result)

====
